---- MODULE Spec2Model ----
(***************************************************************************)
(* Prompt-dispatch-and-persist scripts of the athletic optimization        *)
(* system: system_architect, backend_developer, data_engineer,             *)
(* data_analyst, project_manager, qa_devops and briefing_generator.        *)
(*                                                                         *)
(* Every script is a straight-line program: build the client from the      *)
(* environment, (briefing generator only: encode two screenshots), issue   *)
(* one messages.create call, take message.content[0].text, print it, open  *)
(* the output file with mode "w", write the header lines and the text,     *)
(* close the file and print a confirmation line.  An invocation is one     *)
(* operating-system process; the file system is shared between them.       *)
(*                                                                         *)
(* Text is modelled as a sequence of units: a unit is one character of a   *)
(* response, a newline, or the text of one literal header line.  No script *)
(* inspects the characters of a response, so the characters the service    *)
(* sends to an invocation are marked with that invocation: a unit of the   *)
(* file then tells which invocation it came from.                          *)
(* test_claude.py is the repository's connectivity smoke test: it has no   *)
(* output file and is not one of the seven role scripts modelled here.     *)
(***************************************************************************)
EXTENDS Naturals, Sequences, FiniteSets

\* ------------------------------------------------------------------ bounds
\* longest text of one response content block, in characters
MaxBodyLen == 2
\* most content blocks in one response
MaxBlocks == 2

\* ----------------------------------------------------------------- scripts
Scripts ==
    { "system_architect", "backend_developer", "data_engineer",
      "data_analyst", "project_manager", "qa_devops", "briefing_generator" }

\* the two invocations (operating-system processes) of a scenario
Procs == {1, 2}

NL == "\n"

\* the path each script opens with mode "w"
OutputPath(s) ==
    CASE s = "system_architect"   -> "ARCHITECTURE.md"
      [] s = "backend_developer"  -> "IMPLEMENTATION_CODE.md"
      [] s = "data_engineer"      -> "DATA_INTEGRATION_GUIDE.md"
      [] s = "data_analyst"       -> "RECOMMENDATION_ENGINE.md"
      [] s = "project_manager"    -> "PROJECT_PLAN.md"
      [] s = "qa_devops"          -> "QA_DEVOPS_GUIDE.md"
      [] s = "briefing_generator" -> "DAILY_BRIEFING.txt"

OutputPaths == { OutputPath(s) : s \in Scripts }

\* the literal f.write calls that precede f.write(output), in program order
HeaderWrites(s) ==
    CASE s = "system_architect" ->
           << <<"# Athletic Optimization System Architecture", NL, NL>> >>
      [] s = "backend_developer" ->
           << <<"# Implementation Code", NL, NL>>,
              <<"**Athletic Optimization System - Core Python Modules**", NL, NL>> >>
      [] s = "data_engineer" ->
           << <<"# Data Integration Guide", NL, NL>>,
              <<"**Athletic Optimization System - API Integration Specifications**", NL, NL>> >>
      [] s = "data_analyst" ->
           << <<"# Recommendation Engine Design", NL, NL>>,
              <<"**Athletic Optimization System - Analysis & Decision Logic**", NL, NL>> >>
      [] s = "project_manager" ->
           << <<"# Project Integration Plan", NL, NL>>,
              <<"**Athletic Optimization System - Master Execution Roadmap**", NL, NL>> >>
      [] s = "qa_devops" ->
           << <<"# QA and DevOps Guide", NL, NL>>,
              <<"**Athletic Optimization System - Testing & Deployment**", NL, NL>> >>
      [] s = "briefing_generator" -> << >>

\* the screenshots generate_briefing is called with
OuraPath == "oura_morning.png"
TrainingPath == "training_log.png"
ImagePaths == {OuraPath, TrainingPath}

\* does the script encode images before the call
EncodesImages(s) == s = "briefing_generator"

\* mutant: the body is printed after the file is closed
ProgramPrintLast(s) ==
    IF s = "briefing_generator"
      THEN << "client", "encode_oura", "encode_training", "call", "extract",
              "open", "write", "close", "print", "confirm" >>
      ELSE << "client", "call", "extract", "open", "write", "close", "print",
              "confirm" >>

\* mutant: the confirmation line is printed before the file is opened
ProgramConfirmEarly(s) ==
    IF s = "briefing_generator"
      THEN << "client", "encode_oura", "encode_training", "call", "extract",
              "print", "confirm", "open", "write", "close" >>
      ELSE << "client", "call", "extract", "print", "confirm", "open", "write",
              "close" >>

\* the statements of a script in program order; "write" stands for the
\* f.write calls of the with-block and "close" for leaving the with-block
Program(s) ==
    IF EncodesImages(s)
      THEN << "client", "encode_oura", "encode_training", "call", "extract",
              "print", "open", "write", "close", "confirm" >>
      ELSE << "client", "call", "extract", "print", "open", "write", "close",
              "confirm" >>

\* the statement that follows statement at; the interpreter exits after
\* the last one
Succ(s, at) ==
    LET prog == Program(s)
        i == CHOOSE k \in 1..Len(prog) : prog[k] = at
    IN  IF i = Len(prog) THEN "exit" ELSE prog[i + 1]

\* ------------------------------------------------------------ text helpers
RECURSIVE Concat(_)
Concat(chunks) ==
    IF chunks = << >> THEN << >> ELSE Head(chunks) \o Concat(Tail(chunks))

\* everything the script writes before the body
Header(s) == Concat(HeaderWrites(s))

\* mutant: the body is written before the header lines
WritesBodyFirst(s, body) == << body >> \o HeaderWrites(s)

\* the f.write calls of the with-block, in program order
Writes(s, body) == Append(HeaderWrites(s), body)

\* the character that marks the text sent to invocation p
Mark(p) == IF p = 1 THEN "a" ELSE "b"
Texts(p) == UNION { [1..n -> {Mark(p)}] : n \in 0..MaxBodyLen }

\* content blocks the service can return: text blocks carry .text, the
\* other block types (tool use, thinking, ...) have no .text attribute
TextBlocks(p) == { [type |-> "text", text |-> t] : t \in Texts(p) }
OtherBlocks == { [type |-> "tool_use", text |-> << >>] }
Blocks(p) == TextBlocks(p) \cup OtherBlocks
Responses(p) == UNION { [1..n -> Blocks(p)] : n \in 0..MaxBlocks }

\* ------------------------------------------------------------- file system
Absent == [exists |-> FALSE, data |-> << >>]
File(d) == [exists |-> TRUE, data |-> d]
NUL == "\\0"

Max(a, b) == IF a >= b THEN a ELSE b

\* mutant: the file is opened for appending, every write lands at the end
PWriteAppend(old, pos, data) == old \o data

\* write(2) of data at offset pos: bytes land at pos, a gap past the end of
\* the file reads as NUL, bytes of the file past pos+Len(data) are kept
PWrite(old, pos, data) ==
    LET n == Max(Len(old), pos + Len(data))
    IN  [i \in 1..n |->
           IF i > pos /\ i <= pos + Len(data) THEN data[i - pos]
           ELSE IF i <= Len(old) THEN old[i]
           ELSE NUL]

VARIABLES
    fs,        \* output path -> file (Absent or its content)
    present,   \* the screenshot paths that exist and are readable
    script,    \* per process: the script it runs ("none" before launch)
    pc,        \* per process: the statement it is at
    environ,   \* per process: ANTHROPIC_API_KEY after load_dotenv()
    api_key,   \* per process: the api_key the client was built with
    message,   \* per process: content of the response
    output,    \* per process: message.content[0].text
    stdout,    \* per process: what it has printed
    err,       \* per process: the exception that ended it ("none")
    exitcode,  \* per process: exit status, once pc is "exited"
    fpos,      \* per process: offset of its open file handle
    trace      \* per process: its external effects in order

vars == << fs, present, script, pc, environ, api_key, message, output,
           stdout, err, exitcode, fpos, trace >>

Active(p) == pc[p] \notin {"idle", "exited"}
Finished(p) == pc[p] = "exited"

Init ==
    /\ fs = [path \in OutputPaths |-> Absent]
    /\ present = {}
    /\ script = [p \in Procs |-> "none"]
    /\ pc = [p \in Procs |-> "idle"]
    /\ environ = [p \in Procs |-> "unset"]
    /\ api_key = [p \in Procs |-> "unset"]
    /\ message = [p \in Procs |-> << >>]
    /\ output = [p \in Procs |-> << >>]
    /\ stdout = [p \in Procs |-> << >>]
    /\ err = [p \in Procs |-> "none"]
    /\ exitcode = [p \in Procs |-> 0]
    /\ fpos = [p \in Procs |-> 0]
    /\ trace = [p \in Procs |-> << >>]

\* an uncaught exception: the rest of the script is skipped
Raise(p, e) ==
    /\ pc' = [pc EXCEPT ![p] = "exit"]
    /\ err' = [err EXCEPT ![p] = e]

\* the process is launched: imports, load_dotenv()
Launch(p, s, key, imgs) ==
    /\ pc[p] = "idle"
    /\ script' = [script EXCEPT ![p] = s]
    /\ environ' = [environ EXCEPT ![p] = key]
    /\ present' = IF EncodesImages(s) THEN imgs ELSE present
    /\ pc' = [pc EXCEPT ![p] = Program(s)[1]]
    /\ UNCHANGED << fs, api_key, message, output, stdout, err, exitcode, fpos,
                    trace >>

\* mutant: os.environ["ANTHROPIC_API_KEY"], a KeyError when the key is unset
ConstructClientStrict(p) ==
    /\ pc[p] = "client"
    /\ IF environ[p] = "absent"
         THEN Raise(p, "KeyError") /\ api_key' = api_key
         ELSE /\ api_key' = [api_key EXCEPT ![p] = environ[p]]
              /\ pc' = [pc EXCEPT ![p] = Succ(script[p], "client")]
              /\ err' = err
    /\ UNCHANGED << fs, present, script, environ, message, output, stdout,
                    exitcode, fpos, trace >>

\* client = anthropic.Anthropic(api_key=os.environ.get("ANTHROPIC_API_KEY"))
ConstructClient(p) ==
    /\ pc[p] = "client"
    /\ api_key' = [api_key EXCEPT ![p] = environ[p]]
    /\ pc' = [pc EXCEPT ![p] = Succ(script[p], "client")]
    /\ UNCHANGED << fs, present, script, environ, message, output, stdout, err,
                    exitcode, fpos, trace >>

\* mutant: a missing screenshot is skipped instead of raising
EncodeImageLenient(p, at, path) ==
    /\ pc[p] = at
    /\ pc' = [pc EXCEPT ![p] = Succ(script[p], at)]
    /\ UNCHANGED << fs, present, script, environ, api_key, message, output,
                    stdout, err, exitcode, fpos, trace >>

\* encode_image(path): open(path, "rb") raises when the file is missing
EncodeImage(p, at, path) ==
    /\ pc[p] = at
    /\ IF path \in present
         THEN /\ pc' = [pc EXCEPT ![p] = Succ(script[p], at)]
              /\ err' = err
         ELSE Raise(p, "IOError")
    /\ UNCHANGED << fs, present, script, environ, api_key, message, output,
                    stdout, exitcode, fpos, trace >>

\* oura_image = encode_image(oura_screenshot_path)
EncodeOura(p) == EncodeImage(p, "encode_oura", OuraPath)

\* training_image = encode_image(training_log_path)
EncodeTraining(p) == EncodeImage(p, "encode_training", TrainingPath)

\* the errors the remote call can end in
CallErrors == {"AuthenticationError", "ServiceError"}

\* mutant: a failed call is attempted once more before giving up
CallFailedRetry(p, e) ==
    /\ IF \A i \in 1..Len(trace[p]) : trace[p][i] # "call"
         THEN pc' = pc /\ err' = err
         ELSE Raise(p, e)
    /\ message' = message

\* a failed messages.create: the exception propagates, nothing is retried
CallFailed(p, e) ==
    /\ Raise(p, e)
    /\ message' = message

\* message = client.messages.create(...): the one round trip.  A client
\* built without a key fails here, when the request is attempted.
Call(p) ==
    /\ pc[p] = "call"
    /\ trace' = [trace EXCEPT ![p] = Append(@, "call")]
    /\ IF api_key[p] = "absent"
         THEN CallFailed(p, "AuthenticationError")
         ELSE \/ \E e \in CallErrors : CallFailed(p, e)
              \/ \E r \in Responses(p) :
                    /\ message' = [message EXCEPT ![p] = r]
                    /\ pc' = [pc EXCEPT ![p] = Succ(script[p], "call")]
                    /\ err' = err
    /\ UNCHANGED << fs, present, script, environ, api_key, output, stdout,
                    exitcode, fpos >>

\* mutant: the text of the last block instead of the first
LastBlockText(content) == content[Len(content)].text

\* content[0].text of a response whose first block is a text block
FirstBlockText(content) == content[1].text

\* message.content[0].text: IndexError on an empty content list,
\* AttributeError when the first block has no .text.  The response is read
\* by this expression only (system_architect evaluates it again, on the
\* unchanged object, with the same value), so its value lives on in output.
Extract(p) ==
    /\ pc[p] = "extract"
    /\ IF message[p] = << >>
         THEN Raise(p, "IndexError") /\ output' = output
         ELSE IF message[p][1].type # "text"
         THEN Raise(p, "AttributeError") /\ output' = output
         ELSE /\ output' = [output EXCEPT ![p] = FirstBlockText(message[p])]
              /\ pc' = [pc EXCEPT ![p] = Succ(script[p], "extract")]
              /\ err' = err
    /\ message' = [message EXCEPT ![p] = << >>]
    /\ UNCHANGED << fs, present, script, environ, api_key, stdout, exitcode,
                    fpos, trace >>


BodyLine(text) == [kind |-> "body", text |-> text]
ConfirmationLine(path) == [kind |-> "confirmation", text |-> << path >>]

\* print(output)
PrintBody(p) ==
    /\ pc[p] = "print"
    /\ stdout' = [stdout EXCEPT ![p] = Append(@, BodyLine(output[p]))]
    /\ trace' = [trace EXCEPT ![p] = Append(@, "print_body")]
    /\ pc' = [pc EXCEPT ![p] = Succ(script[p], "print")]
    /\ UNCHANGED << fs, present, script, environ, api_key, message, output,
                    err, exitcode, fpos >>

\* mutant: the file is opened without truncation
OpenedDataKept(old) == old

\* the content of an existing file right after open(path, "w")
OpenedData(old) == << >>

\* with open(path, "w") as f: creates or truncates the file, offset 0;
\* raises when the path cannot be opened for writing
OpenFile(p) ==
    /\ pc[p] = "open"
    /\ \/ /\ fs' = [fs EXCEPT ![OutputPath(script[p])] = File(OpenedData(@.data))]
          /\ fpos' = [fpos EXCEPT ![p] = 0]
          /\ trace' = [trace EXCEPT ![p] = Append(@, "open")]
          /\ pc' = [pc EXCEPT ![p] = Succ(script[p], "open")]
          /\ err' = err
       \/ /\ Raise(p, "IOError")
          /\ UNCHANGED << fs, fpos, trace >>
    /\ UNCHANGED << present, script, environ, api_key, message, output, stdout,
                    exitcode >>

\* what the f.write calls of the with-block hand to the file object
Pending(p) == Concat(Writes(script[p], output[p]))

SubSeqFrom(s, from, k) == [i \in 1..k |-> s[from + i]]

\* the trace of p with one more event, a run of writes counted once
Traced(p, ev) ==
    IF ev = "write" /\ trace[p] # << >> /\ trace[p][Len(trace[p])] = "write"
      THEN trace[p] ELSE Append(trace[p], ev)

\* the f.write(...) calls of the with-block.  The file object buffers what
\* it is given: while the calls run, any piece of the text not yet on disk
\* may be written out at the handle's own offset, and whatever is left is
\* written out when the file is closed.  When writing out raises, leaving
\* the with-block closes the file and the error propagates.
WriteChunk(p) ==
    /\ pc[p] = "write"
    /\ LET path == OutputPath(script[p])
           left == Len(Pending(p)) - fpos[p]
       IN  \/ \E k \in 1..left :
                /\ fs' = [fs EXCEPT ![path] =
                            File(PWrite(@.data, fpos[p], SubSeqFrom(Pending(p), fpos[p], k)))]
                /\ fpos' = [fpos EXCEPT ![p] = @ + k]
                /\ trace' = [trace EXCEPT ![p] = Traced(p, "write")]
                /\ UNCHANGED << pc, err >>
           \/ /\ pc' = [pc EXCEPT ![p] = Succ(script[p], "write")]
              /\ UNCHANGED << fs, fpos, trace, err >>
           \/ /\ left > 0
              /\ Raise(p, "IOError")
              /\ trace' = [trace EXCEPT ![p] = Append(@, "close")]
              /\ UNCHANGED << fs, fpos >>
    /\ UNCHANGED << present, script, environ, api_key, message, output, stdout,
                    exitcode >>

\* leaving the with-block: what is still buffered is written out and the
\* file is closed; the error of a failed write propagates
CloseFile(p) ==
    /\ pc[p] = "close"
    /\ LET path == OutputPath(script[p])
           left == Len(Pending(p)) - fpos[p]
       IN  \/ /\ fs' = [fs EXCEPT ![path] =
                          File(PWrite(@.data, fpos[p], SubSeqFrom(Pending(p), fpos[p], left)))]
              /\ fpos' = [fpos EXCEPT ![p] = @ + left]
              /\ trace' = [trace EXCEPT ![p] =
                             IF left > 0 THEN Append(Traced(p, "write"), "close")
                                         ELSE Append(@, "close")]
              /\ pc' = [pc EXCEPT ![p] = Succ(script[p], "close")]
              /\ err' = err
           \/ /\ left > 0
              /\ Raise(p, "IOError")
              /\ trace' = [trace EXCEPT ![p] = Append(@, "close")]
              /\ UNCHANGED << fs, fpos >>
    /\ UNCHANGED << present, script, environ, api_key, message, output, stdout,
                    exitcode >>

\* print("\n... saved to <path>")
PrintConfirmation(p) ==
    /\ pc[p] = "confirm"
    /\ stdout' = [stdout EXCEPT ![p] = Append(@, ConfirmationLine(OutputPath(script[p])))]
    /\ trace' = [trace EXCEPT ![p] = Append(@, "print_confirmation")]
    /\ pc' = [pc EXCEPT ![p] = Succ(script[p], "confirm")]
    /\ UNCHANGED << fs, present, script, environ, api_key, message, output,
                    err, exitcode, fpos >>

\* the interpreter exits: status 0 at the end of the script, 1 after an
\* uncaught exception; the memory of the process is released
Exit(p) ==
    /\ pc[p] = "exit"
    /\ pc' = [pc EXCEPT ![p] = "exited"]
    /\ exitcode' = [exitcode EXCEPT ![p] = IF err[p] = "none" THEN 0 ELSE 1]
    /\ api_key' = [api_key EXCEPT ![p] = "unset"]
    /\ message' = [message EXCEPT ![p] = << >>]
    /\ output' = [output EXCEPT ![p] = << >>]
    /\ fpos' = [fpos EXCEPT ![p] = 0]
    /\ UNCHANGED << fs, present, script, environ, stdout, err, trace >>

\* one statement of a running process
Step(p) ==
    \/ ConstructClient(p)
    \/ EncodeOura(p)
    \/ EncodeTraining(p)
    \/ Call(p)
    \/ Extract(p)
    \/ PrintBody(p)
    \/ OpenFile(p)
    \/ WriteChunk(p)
    \/ CloseFile(p)
    \/ PrintConfirmation(p)
    \/ Exit(p)

Keys == {"absent", "key"}

\* invocations one after the other: a script is launched when every
\* earlier invocation has exited
LaunchInSequence(p) ==
    /\ \A q \in Procs : q < p => Finished(q)
    /\ \E s \in Scripts, key \in Keys, imgs \in SUBSET ImagePaths :
          Launch(p, s, key, imgs)

\* invocations of one script side by side, with no coordination
LaunchConcurrently(p) ==
    /\ \A q \in Procs : q < p => pc[q] # "idle"
    /\ \E s \in Scripts, key \in Keys, imgs \in SUBSET ImagePaths :
          /\ \A q \in Procs : script[q] \in {"none", s}
          /\ Launch(p, s, key, imgs)

Next == \E p \in Procs : LaunchInSequence(p) \/ Step(p)

Spec == Init /\ [][Next]_vars

NextConc == \E p \in Procs : LaunchConcurrently(p) \/ Step(p)

SpecConc == Init /\ [][NextConc]_vars

\* ---------------------------------------------------------------- claims
Events(p) == { trace[p][i] : i \in 1..Len(trace[p]) }
Count(p, ev) == Cardinality({ i \in 1..Len(trace[p]) : trace[p][i] = ev })
Printed(p, kind) == { i \in 1..Len(stdout[p]) : stdout[p][i].kind = kind }
Succeeded(p) == pc[p] = "exited" /\ exitcode[p] = 0
FailedWith(p, e) == pc[p] = "exited" /\ exitcode[p] = 1 /\ err[p] = e

\* no later invocation has opened the output file of p
LastWriter(p) ==
    \A q \in Procs : (q > p /\ script[q] = script[p]) => "open" \notin Events(q)

HasTextBlock(content) == \E i \in 1..Len(content) : content[i].type = "text"

\* the text of the first text-typed block of a response that has one
FirstTextTypedBlockText(content) ==
    LET i == CHOOSE k \in 1..Len(content) :
                /\ content[k].type = "text"
                /\ \A j \in 1..(k - 1) : content[j].type # "text"
    IN  content[i].text

\* p executes the statement it is at
Executes(p, at) == pc[p] = at /\ pc'[p] # at

\* what is printed and written is the body taken from the response, and
\* only the script's own output file is created
BodyIsPrintedAndWritten ==
    /\ \A p \in Procs :
         /\ pc[p] \in {"open", "write", "close", "confirm"}
              => stdout[p] = << BodyLine(output[p]) >>
         /\ (pc[p] = "confirm" \/ (pc[p] = "exit" /\ err[p] = "none"))
              => /\ fs[OutputPath(script[p])].exists
                 /\ fs[OutputPath(script[p])].data = Header(script[p]) \o output[p]
                 /\ Printed(p, "body") = {1}
                 /\ stdout[p][1].text = output[p]
                 /\ Count(p, "open") = 1
    /\ \A path \in OutputPaths :
         fs[path].exists =>
           \E p \in Procs : script[p] # "none" /\ path = OutputPath(script[p])
                            /\ "open" \in Events(p)

HeaderLines ==
    UNION { { HeaderWrites(s)[i][1] : i \in 1..Len(HeaderWrites(s)) } : s \in Scripts }

\* the body a finished run printed
PrintedBody(p) == stdout[p][1].text

\* C2 as stated: after a successful run of any script the output file is a
\* two-line header (title line, blank line, subtitle line, blank line)
\* followed by the body and nothing else.
C2_TwoLineHeader ==
    \A p \in Procs :
      (Succeeded(p) /\ LastWriter(p)) =>
        \E title \in HeaderLines, subtitle \in HeaderLines :
          fs[OutputPath(script[p])] =
            File(<< title, NL, NL, subtitle, NL, NL >> \o PrintedBody(p))

\* the number of header lines each script writes
HeaderLineCount(s) ==
    CASE s = "system_architect" -> 1
      [] s = "briefing_generator" -> 0
      [] OTHER -> 2

\* C2 amended: after a successful run the output file is exactly the
\* script's own literal header followed by the unmodified body, where the
\* header is a title line and a subtitle line (each followed by a blank
\* line) in backend_developer, data_engineer, data_analyst, project_manager
\* and qa_devops, a title line alone in system_architect, and empty in
\* briefing_generator.
C2_ScriptHeader ==
    \A p \in Procs :
      (Succeeded(p) /\ LastWriter(p)) =>
        LET s == script[p]
            n == HeaderLineCount(s)
        IN  /\ Len(HeaderWrites(s)) = n
            /\ \A i \in 1..n :
                 /\ Len(HeaderWrites(s)[i]) = 3
                 /\ HeaderWrites(s)[i][1] \in HeaderLines
                 /\ HeaderWrites(s)[i][2] = NL /\ HeaderWrites(s)[i][3] = NL
            /\ fs[OutputPath(s)] = File(Concat(HeaderWrites(s)) \o PrintedBody(p))

\* system_architect has finished successfully with a non-empty body
C2_Witness ==
    \E p \in Procs :
      /\ Succeeded(p) /\ LastWriter(p)
      /\ script[p] = "system_architect"
      /\ Len(PrintedBody(p)) = MaxBodyLen

\* the artifact of a finished run: its header followed by the body it printed
Artifact(p) == Header(script[p]) \o PrintedBody(p)

\* C3: when a script is run twice in sequence and both runs succeed, the
\* file holds exactly the header and body of the second run and no unit
\* of the first run's body, whatever the lengths of the two bodies.
C3_OverwriteKeepsOnlySecond ==
    \A p \in Procs, q \in Procs :
      (p < q /\ Succeeded(p) /\ Succeeded(q) /\ script[p] = script[q]
         /\ LastWriter(q)) =>
        LET d == fs[OutputPath(script[q])].data
        IN  /\ d = Artifact(q)
            /\ \A i \in 1..Len(d) : d[i] # Mark(p)

\* the same script has succeeded twice, the first body longer than the second
C3_Witness ==
    /\ Succeeded(1) /\ Succeeded(2)
    /\ script[1] = script[2]
    /\ script[1] = "data_engineer"
    /\ Len(PrintedBody(1)) > Len(PrintedBody(2))

\* the latest launch of the briefing generator, whose screenshots are
\* the ones present
LatestBriefing(p) ==
    /\ script[p] = "briefing_generator"
    /\ \A q \in Procs : q > p => script[q] # "briefing_generator"

\* C5: in the briefing generator, when either screenshot is missing
\* encode_image fails with IOError, the remote call is never attempted,
\* nothing is printed and no output file is opened, whether the first or
\* the second screenshot is the missing one.
C5_MissingImageNoCall ==
    \A p \in Procs :
      LatestBriefing(p) =>
        /\ (OuraPath \notin present) =>
              pc[p] \in {"client", "encode_oura", "exit", "exited"}
        /\ (TrainingPath \notin present) =>
              pc[p] \in {"client", "encode_oura", "encode_training", "exit", "exited"}
        /\ (ImagePaths \ present # {}) =>
              /\ trace[p] = << >>
              /\ stdout[p] = << >>
              /\ pc[p] \in {"exit", "exited"} => err[p] = "IOError"
              /\ pc[p] = "exited" => exitcode[p] = 1

\* the briefing generator has failed on the second screenshot, the first
\* one being present
C5_Witness ==
    \E p \in Procs :
      /\ LatestBriefing(p)
      /\ present = {OuraPath}
      /\ FailedWith(p, "IOError")
      /\ trace[p] = << >>

\* C6: with no credential configured the client is still constructed, the
\* run fails with AuthenticationError when the remote call is attempted
\* and not earlier, and the output file is never opened or written and
\* nothing is printed.  (A run of the briefing generator whose screenshot
\* is unreadable ends earlier, on that IOError.)
C6_MissingCredential ==
    \A p \in Procs :
      environ[p] = "absent" =>
        /\ Events(p) \subseteq {"call"}
        /\ stdout[p] = << >>
        /\ pc[p] \notin {"extract", "print", "open", "write", "close", "confirm"}
        /\ pc[p] \in {"exit", "exited"} =>
              IF "call" \in Events(p)
                THEN err[p] = "AuthenticationError"
                ELSE err[p] = "IOError" /\ EncodesImages(script[p])
        /\ pc[p] = "call" => api_key[p] = "absent"
        /\ pc[p] = "exited" => exitcode[p] = 1

\* qa_devops has failed with AuthenticationError at the call, without a key
C6_Witness ==
    \E p \in Procs :
      /\ script[p] = "qa_devops"
      /\ environ[p] = "absent"
      /\ FailedWith(p, "AuthenticationError")
      /\ trace[p] = << "call" >>

\* event a occurs in the trace of p before the first event b
Before(p, a, b) ==
    \A j \in 1..Len(trace[p]) :
      trace[p][j] = b => \E i \in 1..(j - 1) : trace[p][i] = a

\* C7: the body is printed before the output file is opened: a run whose
\* call succeeded and whose open or write fails ends with IOError and a
\* non-zero exit status, with the complete body already on the console.
C7_PrintBeforeWrite ==
    \A p \in Procs :
      /\ Before(p, "print_body", "open")
      /\ (err[p] = "IOError" /\ "call" \in Events(p)) =>
            /\ Printed(p, "body") = {1}
            /\ pc[p] = "exit" => stdout[p] = << BodyLine(output[p]) >>
            /\ pc[p] = "exited" => exitcode[p] = 1

\* data_analyst could not open its output file after printing a body
C7_Witness ==
    \E p \in Procs :
      /\ script[p] = "data_analyst"
      /\ FailedWith(p, "IOError")
      /\ trace[p] = << "call", "print_body" >>
      /\ Len(PrintedBody(p)) = MaxBodyLen

\* C8: the confirmation line is printed only after the file has been written
\* completely and closed; a run that ends in an error has printed no
\* confirmation line and exits non-zero, a run without error ends by
\* printing the confirmation line naming its output path and exits zero.
C8_ConfirmationLast ==
    \A p \in Procs :
      /\ Before(p, "close", "print_confirmation")
      /\ Printed(p, "confirmation") # {} =>
            /\ err[p] = "none"
            /\ pc[p] \in {"exit", "exited"}
            /\ trace[p][Len(trace[p])] = "print_confirmation"
            /\ trace[p][Len(trace[p]) - 1] = "close"
            /\ pc[p] = "exit" =>
                 fs[OutputPath(script[p])] = File(Pending(p))
      /\ pc[p] = "exited" =>
            IF err[p] # "none"
              THEN exitcode[p] = 1 /\ Printed(p, "confirmation") = {}
              ELSE /\ exitcode[p] = 0
                   /\ Printed(p, "confirmation") = {Len(stdout[p])}
                   /\ stdout[p][Len(stdout[p])] =
                        ConfirmationLine(OutputPath(script[p]))

\* project_manager failed while writing, leaving a partial file
C8_Witness ==
    \E p \in Procs :
      /\ script[p] = "project_manager"
      /\ FailedWith(p, "IOError")
      /\ "write" \in Events(p)
      /\ Len(fs[OutputPath(script[p])].data) < Len(Artifact(p))

\* C9: an invocation attempts the remote call at most once; when the call
\* fails the invocation ends with that error, with no second call, no body
\* printed and no file opened or written.
C9_SingleCallNoRetry ==
    \A p \in Procs :
      /\ Count(p, "call") <= 1
      /\ err[p] \in CallErrors =>
            /\ pc[p] \in {"exit", "exited"}
            /\ trace[p] = << "call" >>
            /\ stdout[p] = << >>
            /\ pc[p] = "exited" => exitcode[p] = 1

\* data_engineer has failed on a service error after its one call
C9_Witness ==
    \E p \in Procs :
      /\ script[p] = "data_engineer"
      /\ environ[p] = "key"
      /\ FailedWith(p, "ServiceError")
      /\ trace[p] = << "call" >>

\* two invocations of one script have both completed their writes
BothWrote ==
    /\ Succeeded(1) /\ Succeeded(2)
    /\ script[1] = script[2]

FileText(p) == IF pc[p] = "exited" THEN Artifact(p) ELSE Pending(p)

====
